---- MODULE Spec2Model ----
(***************************************************************************)
(* A model of checker.py: the label encoder, the automaton encoder, the    *)
(* network composer and the forward reachability loop of a network of      *)
(* synchronising automata.                                                 *)
(***************************************************************************)
EXTENDS Integers, Sequences, FiniteSets, TLC

VARIABLES pc, input, mgr, actions, action_bdd_var_names, action_bdd_encodings,
          automata, net, reachable_states_bdd, prev_bdd, i, result

vars == <<pc, input, mgr, actions, action_bdd_var_names, action_bdd_encodings,
          automata, net, reachable_states_bdd, prev_bdd, i, result>>

(***************************************************************************)
(* Bounds of the inputs.                                                   *)
(***************************************************************************)
MaxTrans == 2

(***************************************************************************)
(* Python helpers.                                                         *)
(***************************************************************************)
Range(s) == {s[k] : k \in 1..Len(s)}

\* math.ceil(math.log2(n)) for n >= 1 (math.log2(0) raises ValueError)
NeededVars(n) == CHOOSE k \in 0..n : 2^k >= n /\ \A j \in 0..(k-1) : 2^j < n

RECURSIVE Bin(_)
\* bin(n)[2:] as a sequence of digits, most significant first
Bin(n) == IF n < 2 THEN <<n>> ELSE Append(Bin(n \div 2), n % 2)

\* ('0' * needed_vars + bin(idx)[2:])[-needed_vars:]; s[-0:] is all of s
RawEncoding(idx, needed_vars) ==
    LET padded == [j \in 1..needed_vars |-> 0] \o Bin(idx)
    IN  IF needed_vars = 0 THEN padded
        ELSE SubSeq(padded, Len(padded) - needed_vars + 1, Len(padded))

(***************************************************************************)
(* The BDD manager (dd.cudd.BDD).  mgr is the sequence of the declared     *)
(* variable names, in declaration order.  A BDD is modelled by the Boolean *)
(* function it denotes, in a canonical form: support is the set of the     *)
(* variables the function depends on, sat the set of the assignments to    *)
(* the support that satisfy it, an assignment being the set of the         *)
(* variables it makes true.  BDDs are canonical, so equality of BDDs in    *)
(* the code is equality of these records.                                  *)
(*                                                                         *)
(* Each operation binds its operands with "\in {..}" before it uses them,  *)
(* so that an operand is evaluated once however often the body reads it.   *)
(***************************************************************************)
\* a field that holds Python's None: no BDD has this form
None == [support |-> {"None"}, sat |-> {}]

Flip(a, v) == IF v \in a THEN a \ {v} ELSE a \cup {v}

\* the function over the variables S with the satisfying assignments A,
\* reduced to the variables it depends on
Mk(S0, A0) ==
    LET Reduced(S, A) ==
            CHOOSE r \in {[support |-> E, sat |-> {a \cap E : a \in A}] :
                            E \in {{v \in S : \E a \in A : Flip(a, v) \notin A}}} : TRUE
    IN  CHOOSE r \in {Reduced(S, A) : S \in {S0}, A \in {A0}} : TRUE

BddTrue == [support |-> {}, sat |-> {{}}]

BddFalse == [support |-> {}, sat |-> {}]

Declared(m, name) == name \in Range(m)

\* add_var: a name already declared keeps its index
AddVar(m, name) == IF Declared(m, name) THEN m ELSE Append(m, name)

\* mgr.var(name), for a declared name
BddVar(name) == [support |-> {name}, sat |-> {{name}}]

\* the satisfying assignments of u as assignments to the variables S
Extend(u, S) == {a \cup e : a \in u.sat, e \in SUBSET (S \ u.support)}

BddNot(u0) ==
    LET Not(u) == [support |-> u.support, sat |-> (SUBSET u.support) \ u.sat]
    IN  CHOOSE r \in {Not(u) : u \in {u0}} : TRUE

BddAnd(u0, v0) ==
    LET And(u, v) ==
            Mk(u.support \cup v.support,
               {ab[1] \cup ab[2] :
                  ab \in {p \in u.sat \X v.sat :
                            p[1] \cap v.support = p[2] \cap u.support}})
    IN  CHOOSE r \in {And(u, v) : u \in {u0}, v \in {v0}} : TRUE

BddOr(u0, v0) ==
    LET Or(u, v, S) == Mk(S, Extend(u, S) \cup Extend(v, S))
    IN  CHOOSE r \in {Or(u, v, u.support \cup v.support) : u \in {u0}, v \in {v0}} : TRUE

\* mgr.quantify(u, names, forall=False)
BddExists(u0, names0) ==
    LET Exists(u, names) == Mk(u.support \ names, {a \ names : a \in u.sat})
    IN  CHOOSE r \in {Exists(u, names) : u \in {u0}, names \in {names0}} : TRUE

\* mgr.let(d, u) for a dict d of variable names: every variable v of u in the
\* dict is replaced by d[v], all at once
BddLet(d0, u0) ==
    LET Sub(d, v) == IF v \in DOMAIN d THEN d[v] ELSE v
        Let(d, u, S) ==
            Mk(S, {b \in SUBSET S : {v \in u.support : Sub(d, v) \in b} \in u.sat})
    IN  CHOOSE r \in {Let(d, u, {Sub(d, v) : v \in u.support}) :
                        d \in {d0}, u \in {u0}} : TRUE

\* whether the assignment a (the set of the true variables) satisfies u
Holds(u, a) == (a \cap u.support) \in u.sat

(***************************************************************************)
(* encode_list_of_labels.  The result is a record: err is TRUE when the    *)
(* call raises; mgr is the manager after the call; vars, enc and primed    *)
(* are the returned variable names, label encodings and name dict.         *)
(***************************************************************************)
primed_prefix == "primed"

VarName(variable_prefix, j) == variable_prefix \o ToString(j)

\* lines 70-80: the manager after the allocation loop
RECURSIVE AllocateVars(_, _, _, _, _)
AllocateVars(m, variable_prefix, needed_vars, generate_primed, j) ==
    IF j >= needed_vars THEN m
    ELSE LET new_var_name == VarName(variable_prefix, j)
             m1 == AddVar(m, new_var_name)
             m2 == IF generate_primed
                   THEN AddVar(m1, primed_prefix \o new_var_name)
                   ELSE m1
         IN  AllocateVars(m2, variable_prefix, needed_vars, generate_primed, j + 1)

\* PrimedDict with the direction from unprimed to primed only
PrimedDictOneWay(variable_prefix, needed_vars) ==
    LET unprimed == {VarName(variable_prefix, j) : j \in 0..(needed_vars - 1)}
    IN  [v \in unprimed |-> primed_prefix \o v]

\* lines 66-79: the dict holds both directions
PrimedDict(variable_prefix, needed_vars) ==
    LET unprimed == {VarName(variable_prefix, j) : j \in 0..(needed_vars - 1)}
        primedv == {primed_prefix \o v : v \in unprimed}
    IN  [v \in unprimed \cup primedv |->
            IF v \in unprimed THEN primed_prefix \o v
            ELSE CHOOSE w \in unprimed : primed_prefix \o w = v]

\* lines 88-93: the conjunction of the literals of bool_encoding[j..]
RECURSIVE Minterm(_, _, _)
Minterm(variable_prefix, bool_encoding, j) ==
    IF j > Len(bool_encoding) THEN BddTrue
    ELSE LET v == BddVar(VarName(variable_prefix, j - 1))
         IN  BddAnd(IF bool_encoding[j] = 1 THEN v ELSE BddNot(v),
                    Minterm(variable_prefix, bool_encoding, j + 1))

\* lines 84-96: the encoding of the label at index idx (from 0)
LabelEncoding(variable_prefix, needed_vars, idx) ==
    Minterm(variable_prefix, RawEncoding(idx, needed_vars), 1)

\* mgr.var raises for a name that was never declared
EncodingRaises(m, variable_prefix, needed_vars, n) ==
    \E idx \in 0..(n - 1) :
        \E j \in 1..Len(RawEncoding(idx, needed_vars)) :
            ~Declared(m, VarName(variable_prefix, j - 1))

EncodeFailure(m) ==
    [err |-> TRUE, mgr |-> m, vars |-> <<>>, enc |-> <<>>, primed |-> <<>>]

\* encode_list_of_labels with the empty list taken as a list that needs no
\* variable
encode_list_of_labels_empty_allowed(label_list, m, variable_prefix, generate_primed) ==
    IF Len(label_list) = 0
    THEN [err |-> FALSE, mgr |-> m, vars |-> <<>>, enc |-> <<>>, primed |-> <<>>]
    ELSE
    LET needed_vars == NeededVars(Len(label_list))
        m2 == AllocateVars(m, variable_prefix, needed_vars, generate_primed, 0)
    IN  IF EncodingRaises(m2, variable_prefix, needed_vars, Len(label_list))
        THEN EncodeFailure(m2)
        ELSE [err |-> FALSE,
              mgr |-> m2,
              vars |-> [j \in 1..needed_vars |-> VarName(variable_prefix, j - 1)],
              enc |-> [l \in Range(label_list) |->
                         LabelEncoding(variable_prefix, needed_vars,
                             (CHOOSE k \in 1..Len(label_list) : label_list[k] = l) - 1)],
              primed |-> IF generate_primed
                         THEN PrimedDict(variable_prefix, needed_vars)
                         ELSE <<>>]

\* lines 56-101; math.log2(0) at line 63 raises for the empty list
encode_list_of_labels(label_list, m, variable_prefix, generate_primed) ==
    IF Len(label_list) = 0 THEN EncodeFailure(m)
    ELSE
    LET needed_vars == NeededVars(Len(label_list))
        m2 == AllocateVars(m, variable_prefix, needed_vars, generate_primed, 0)
    IN  IF EncodingRaises(m2, variable_prefix, needed_vars, Len(label_list))
        THEN EncodeFailure(m2)
        ELSE [err |-> FALSE,
              mgr |-> m2,
              vars |-> [j \in 1..needed_vars |-> VarName(variable_prefix, j - 1)],
              enc |-> [l \in Range(label_list) |->
                         LabelEncoding(variable_prefix, needed_vars,
                             (CHOOSE k \in 1..Len(label_list) : label_list[k] = l) - 1)],
              primed |-> IF generate_primed
                         THEN PrimedDict(variable_prefix, needed_vars)
                         ELSE <<>>]

(***************************************************************************)
(* Automaton.                                                              *)
(***************************************************************************)
tau_label == "tau"

\* Automaton.__init__ followed by read_automaton on the parsed model file
\* model = [name, states, transitions]; labels outside actions_list become tau
read_automaton(model, actions_list) ==
    [name |-> model.name,
     states |-> model.states,
     init_state |-> model.states[1],
     transitions |->
        {<<t[1], IF t[2] \in Range(actions_list) THEN t[2] ELSE tau_label, t[3]>> :
            t \in model.transitions},
     known_actions |->
        {tau_label} \cup {t[2] : t \in {u \in model.transitions : u[2] \in Range(actions_list)}},
     state_bdd_vars |-> <<>>,
     state_bdd_vars_nonprimed_to_primed_dict |-> <<>>,
     state_to_nonprimed_bdd_encoding |-> <<>>,
     init_state_bdd |-> None,
     transition_relation |-> <<>>,
     identity |-> None]

\* lines 175-179: \/_s enc(s) /\ primed enc(s)
RECURSIVE BigOr(_)
\* the disjunction of a set of BDDs, from false
BigOr(us) ==
    IF us = {} THEN BddFalse
    ELSE LET u == CHOOSE w \in us : TRUE IN BddOr(u, BigOr(us \ {u}))

RECURSIVE BigAnd(_)
\* the conjunction of a set of BDDs
BigAnd(us) ==
    IF us = {} THEN BddTrue
    ELSE LET u == CHOOSE w \in us : TRUE IN BddAnd(u, BigAnd(us \ {u}))

\* Identity with the second copy of the encoding left unprimed
IdentityUnprimed(primed, enc) ==
    BigOr({BddAnd(enc[s], enc[s]) : s \in DOMAIN enc})

Identity(primed, enc) ==
    BigOr({BddAnd(enc[s], BddLet(primed, enc[s])) : s \in DOMAIN enc})

\* TransitionRelation with the target encoding left unprimed
TransitionRelationUnprimedTarget(primed, enc, action_enc, transitions, label) ==
    BigOr({BddAnd(BddAnd(enc[t[1]],
                         IF label = tau_label THEN BddTrue ELSE action_enc[label]),
                  enc[t[3]]) :
              t \in {u \in transitions : u[2] = label}})

\* lines 185-199: the disjuncts source /\ label /\ primed target of one label
TransitionRelation(primed, enc, action_enc, transitions, label) ==
    BigOr({BddAnd(BddAnd(enc[t[1]],
                         IF label = tau_label THEN BddTrue ELSE action_enc[label]),
                  BddLet(primed, enc[t[3]])) :
              t \in {u \in transitions : u[2] = label}})

\* Automaton.encode_model: [err, mgr, auto]
AutomatonEncodeModel(auto, m, action_enc) ==
    LET WithStates(e) ==
            IF e.err THEN [err |-> TRUE, mgr |-> e.mgr, auto |-> auto]
            ELSE [err |-> FALSE,
                  mgr |-> e.mgr,
                  auto |->
                    [auto EXCEPT
                       !.state_bdd_vars = e.vars,
                       !.state_to_nonprimed_bdd_encoding = e.enc,
                       !.state_bdd_vars_nonprimed_to_primed_dict = e.primed,
                       !.init_state_bdd = e.enc[auto.init_state],
                       !.identity = Identity(e.primed, e.enc),
                       !.transition_relation =
                          [a \in auto.known_actions |->
                             TransitionRelation(e.primed, e.enc, action_enc,
                                                auto.transitions, a)]]]
    IN  CHOOSE x \in {WithStates(e) :
                        e \in {encode_list_of_labels(auto.states, m,
                                                     auto.name \o "state", TRUE)}} : TRUE

(***************************************************************************)
(* Network.                                                                *)
(***************************************************************************)
\* Network.__init__
NetworkInit ==
    [state_bdd_vars |-> <<>>,
     state_bdd_vars_nonprimed_to_primed_dict |-> <<>>,
     init_state_bdd |-> None,
     transition_relation |-> None]

\* dict.update
DictUpdate(d, e) ==
    [k \in DOMAIN d \cup DOMAIN e |-> IF k \in DOMAIN e THEN e[k] ELSE d[k]]

\* functools.reduce(lambda x,y: x&y, [f[k] for k in ks]) over a non-empty ks
ReduceAnd(f, ks) == BigAnd({f[k] : k \in ks})

\* the indices of the automata returned by get_automata_that_know_action
get_automata_that_know_action(autos, action) ==
    {k \in 1..Len(autos) : action \in autos[k].known_actions}

\* lines 228-233: encode the automata k.. in declaration order, conjoin the
\* initial states, collect the state variables and the name dict
RECURSIVE EncodeAutomata(_, _, _, _, _)
EncodeAutomata(autos, k, m, action_enc, n) ==
    IF k > Len(autos) THEN [err |-> FALSE, mgr |-> m, automata |-> autos, net |-> n]
    ELSE LET Rest(r) ==
                 IF r.err
                 THEN [err |-> TRUE, mgr |-> r.mgr, automata |-> autos, net |-> n]
                 ELSE EncodeAutomata([autos EXCEPT ![k] = r.auto], k + 1, r.mgr, action_enc,
                        [n EXCEPT
                           !.init_state_bdd = BddAnd(@, r.auto.init_state_bdd),
                           !.state_bdd_vars = @ \o r.auto.state_bdd_vars,
                           !.state_bdd_vars_nonprimed_to_primed_dict =
                               DictUpdate(@, r.auto.state_bdd_vars_nonprimed_to_primed_dict)])
         IN  CHOOSE x \in {Rest(r) : r \in {AutomatonEncodeModel(autos[k], m, action_enc)}} :
                 TRUE

\* SyncTransitions without the identities of the automata that do not know
\* the action
SyncTransitionsNoIdentity(autos, action) ==
    LET sync_automata == get_automata_that_know_action(autos, action)
    IN  ReduceAnd([k \in sync_automata |-> autos[k].transition_relation[action]],
                  sync_automata)

\* lines 269-283: the participants' relations for the action, conjoined with
\* the identities of the automata that do not know it
SyncTransitions(autos, action) ==
    LET sync_automata == get_automata_that_know_action(autos, action)
        other_automata == (1..Len(autos)) \ sync_automata
        identity == IF other_automata # {}
                    THEN ReduceAnd([k \in 1..Len(autos) |-> autos[k].identity],
                                   other_automata)
                    ELSE BddTrue
    IN  BddAnd(ReduceAnd([k \in sync_automata |-> autos[k].transition_relation[action]],
                         sync_automata),
               identity)

\* SyncPart with the actions nobody knows taken like the others
SyncPartNoSkip(autos, acts) ==
    BigOr({SyncTransitions(autos, a) : a \in Range(acts)})

\* lines 267-303: the disjunction over the actions somebody knows
SyncPart(autos, acts) ==
    BigOr({SyncTransitions(autos, a) :
             a \in {b \in Range(acts) : get_automata_that_know_action(autos, b) # {}}})

\* line 307: the automata whose tau relation is not false
HasLocal(autos) ==
    {k \in 1..Len(autos) : autos[k].transition_relation[tau_label] # BddFalse}

\* lines 309-312: the tau relation with the identities of all the others
LocalTransitions(autos, k) ==
    BddAnd(autos[k].transition_relation[tau_label],
           ReduceAnd([j \in 1..Len(autos) |-> autos[j].identity], (1..Len(autos)) \ {k}))

\* line 310: reduce over an empty list with no initial value raises TypeError
LocalRaises(autos) == HasLocal(autos) # {} /\ Len(autos) = 1

\* lines 265-313
GlobalTransitionRelation(autos, acts) ==
    BddOr(SyncPart(autos, acts),
          BigOr({LocalTransitions(autos, k) : k \in HasLocal(autos)}))

(***************************************************************************)
(* compute_reachable_space.                                                *)
(***************************************************************************)
\* Image without the renaming of the primed variables
ImageNoRename(n, action_vars, u) ==
    BddExists(BddAnd(u, n.transition_relation),
              Range(n.state_bdd_vars) \cup Range(action_vars))

\* lines 329-332: quantify the unprimed state and action variables out of
\* u /\ transition_relation, then rename primed to unprimed with the dict
Image(n, action_vars, u) ==
    BddLet(n.state_bdd_vars_nonprimed_to_primed_dict,
           BddExists(BddAnd(u, n.transition_relation),
                     Range(n.state_bdd_vars) \cup Range(action_vars)))

(***************************************************************************)
(* The inputs: the parsed sync file and model files.                       *)
(***************************************************************************)
ActionNames == <<"a", "b", "c">>

TransLabels == {"a", "b", "x"}

AutomatonNames == <<"wuch", "wub", "wuk">>

StateNames == <<"s0", "s1", "s2">>

\* the sync files: the first k action names, k = 0 included
Alphabets == {SubSeq(ActionNames, 1, k) : k \in 0..Len(ActionNames)}

\* the transitions an automaton with n states may have: from a state to the
\* next one in the declared order (the last one leads back to the first)
Candidates(n) ==
    {<<StateNames[k], l, StateNames[(k % n) + 1]>> : k \in 1..n, l \in TransLabels}

\* the model files of an automaton: the first n state names and at most
\* MaxTrans transitions, no two of them from the same state
Models(name) ==
    UNION {{[name |-> name, states |-> SubSeq(StateNames, 1, n), transitions |-> T] :
              T \in {U \in SUBSET Candidates(n) :
                        /\ Cardinality(U) <= MaxTrans
                        /\ \A t, u \in U : t[1] = u[1] => t = u}} :
           n \in 1..Len(StateNames)}

RECURSIVE ModelLists(_)
ModelLists(k) ==
    IF k = 0 THEN {<<>>}
    ELSE {Append(l, md) : l \in ModelLists(k - 1), md \in Models(AutomatonNames[k])}

\* the networks of one automaton and of two
GeneratedInputs ==
    {[actions |-> al, automata |-> l] :
        al \in Alphabets, l \in ModelLists(1) \cup ModelLists(2)}

Model(name, states, transitions) ==
    [name |-> name, states |-> states, transitions |-> transitions]

\* the scenarios S1 to S5
S1 == [actions |-> <<>>,
       automata |-> <<Model("wuch", <<"a", "b", "c">>,
                            {<<"a", "x", "b">>, <<"b", "x", "c">>})>>]

S2 == [actions |-> <<"c">>,
       automata |-> <<Model("wuch", <<"p", "q">>, {<<"p", "c", "q">>}),
                      Model("wub", <<"r", "s">>, {<<"r", "c", "s">>})>>]

S3 == [actions |-> <<"c">>,
       automata |-> <<Model("wuch", <<"p", "q">>, {<<"p", "c", "q">>}),
                      Model("wub", <<"r">>, {})>>]

S4 == [actions |-> <<>>,
       automata |-> <<Model("wuch", <<"a", "b">>, {<<"a", "t1", "b">>}),
                      Model("wub", <<"c", "d">>, {<<"c", "t2", "d">>})>>]

S5 == [actions |-> <<"a", "b">>,
       automata |->
          [k \in 1..Len(AutomatonNames) |->
              Model(AutomatonNames[k], <<"0", "1", "2">>,
                    {<<"0", "a", "1">>, <<"1", "b", "2">>})]]

Scenarios == {S1, S2, S3, S4, S5}

Inputs == GeneratedInputs \cup Scenarios

(***************************************************************************)
(* The program: __main__ with the automata of the input.                   *)
(***************************************************************************)
Init ==
    /\ input \in Inputs
    /\ pc = "main"
    /\ mgr = <<>>
    /\ actions = <<>>
    /\ action_bdd_var_names = <<>>
    /\ action_bdd_encodings = <<>>
    /\ automata = <<>>
    /\ net = NetworkInit
    /\ reachable_states_bdd = None
    /\ prev_bdd = None
    /\ i = 0
    /\ result = None

\* lines 367-368
EncodeActions ==
    /\ pc = "main"
    /\ \E r \in {encode_list_of_labels(input.actions, mgr, "act", FALSE)} :
           /\ actions' = input.actions
           /\ mgr' = r.mgr
           /\ action_bdd_var_names' = r.vars
           /\ action_bdd_encodings' = r.enc
           /\ pc' = IF r.err THEN "label_error" ELSE "read"
    /\ UNCHANGED <<input, automata, net, reachable_states_bdd, prev_bdd, i, result>>

\* lines 371-378, 381: one automaton is made and read
ReadAutomaton ==
    /\ pc = "read"
    /\ automata' = Append(automata,
                          read_automaton(input.automata[Len(automata) + 1], actions))
    /\ pc' = IF Len(automata') = Len(input.automata) THEN "encode" ELSE "read"
    /\ UNCHANGED <<input, mgr, actions, action_bdd_var_names, action_bdd_encodings,
                   net, reachable_states_bdd, prev_bdd, i, result>>

\* Network.encode_model, lines 222-261: the automata are encoded, the global
\* initial state is built, and the debugging block ends the program at
\* line 261 (sys.exit) before the transition relation is assigned
NetworkEncodeModel ==
    /\ pc = "encode"
    /\ \E r \in {EncodeAutomata(automata, 1, mgr, action_bdd_encodings,
                                  [net EXCEPT !.init_state_bdd = BddTrue])} :
           /\ mgr' = r.mgr
           /\ automata' = r.automata
           /\ net' = r.net
           /\ pc' = IF r.err THEN "encode_error" ELSE "exited"
    /\ UNCHANGED <<input, actions, action_bdd_var_names, action_bdd_encodings,
                   reachable_states_bdd, prev_bdd, i, result>>

\* Network.encode_model without the debugging block: lines 222-233, 265-313
ComposeModel ==
    /\ pc = "encode"
    /\ \E r \in {EncodeAutomata(automata, 1, mgr, action_bdd_encodings,
                                  [net EXCEPT !.init_state_bdd = BddTrue])} :
           /\ mgr' = r.mgr
           /\ automata' = r.automata
           /\ IF r.err
              THEN net' = r.net /\ pc' = "encode_error"
              ELSE IF LocalRaises(r.automata)
              THEN /\ net' = [r.net EXCEPT
                                !.transition_relation = SyncPart(r.automata, actions)]
                   /\ pc' = "encode_error"
              ELSE /\ net' = [r.net EXCEPT
                                !.transition_relation =
                                    GlobalTransitionRelation(r.automata, actions)]
                   /\ pc' = "reach"
    /\ UNCHANGED <<input, actions, action_bdd_var_names, action_bdd_encodings,
                   reachable_states_bdd, prev_bdd, i, result>>

\* lines 320-325
ReachStart ==
    /\ pc = "reach"
    /\ reachable_states_bdd' = net.init_state_bdd
    /\ prev_bdd' = BddFalse
    /\ i' = 1
    /\ pc' = "loop"
    /\ UNCHANGED <<input, mgr, actions, action_bdd_var_names, action_bdd_encodings,
                   automata, net, result>>

\* ReachIterate with prev_bdd assigned after the update instead of before
ReachIteratePrevAfter ==
    /\ pc = "loop"
    /\ reachable_states_bdd # prev_bdd
    /\ reachable_states_bdd' =
          BddOr(reachable_states_bdd,
                Image(net, action_bdd_var_names, reachable_states_bdd))
    /\ prev_bdd' = reachable_states_bdd'
    /\ i' = i + 1
    /\ UNCHANGED <<pc, input, mgr, actions, action_bdd_var_names, action_bdd_encodings,
                   automata, net, result>>

\* ReachIterate with prev_bdd never assigned in the loop
ReachIterateNoPrev ==
    /\ pc = "loop"
    /\ reachable_states_bdd # prev_bdd
    /\ reachable_states_bdd' =
          BddOr(reachable_states_bdd,
                Image(net, action_bdd_var_names, reachable_states_bdd))
    /\ i' = i + 1
    /\ UNCHANGED <<pc, input, mgr, actions, action_bdd_var_names, action_bdd_encodings,
                   automata, net, result, prev_bdd>>

\* ReachIterate with the set also stored as the network's initial state
ReachIterateStoring ==
    /\ pc = "loop"
    /\ reachable_states_bdd # prev_bdd
    /\ prev_bdd' = reachable_states_bdd
    /\ reachable_states_bdd' =
          BddOr(reachable_states_bdd,
                Image(net, action_bdd_var_names, reachable_states_bdd))
    /\ net' = [net EXCEPT !.init_state_bdd = reachable_states_bdd']
    /\ i' = i + 1
    /\ UNCHANGED <<pc, input, mgr, actions, action_bdd_var_names, action_bdd_encodings,
                   automata, result>>

\* ReachIterate with the image taken of the previous set
ReachIterateFromPrev ==
    /\ pc = "loop"
    /\ reachable_states_bdd # prev_bdd
    /\ prev_bdd' = reachable_states_bdd
    /\ reachable_states_bdd' =
          BddOr(reachable_states_bdd, Image(net, action_bdd_var_names, prev_bdd))
    /\ i' = i + 1
    /\ UNCHANGED <<pc, input, mgr, actions, action_bdd_var_names, action_bdd_encodings,
                   automata, net, result>>

\* ReachIterate with the set replaced by its image instead of joined with it
ReachIterateImageOnly ==
    /\ pc = "loop"
    /\ reachable_states_bdd # prev_bdd
    /\ prev_bdd' = reachable_states_bdd
    /\ reachable_states_bdd' = Image(net, action_bdd_var_names, reachable_states_bdd)
    /\ i' = i + 1
    /\ UNCHANGED <<pc, input, mgr, actions, action_bdd_var_names, action_bdd_encodings,
                   automata, net, result>>

\* lines 326-340: one iteration of the loop
ReachIterate ==
    /\ pc = "loop"
    /\ reachable_states_bdd # prev_bdd
    /\ prev_bdd' = reachable_states_bdd
    /\ reachable_states_bdd' =
          BddOr(reachable_states_bdd,
                Image(net, action_bdd_var_names, reachable_states_bdd))
    /\ i' = i + 1
    /\ UNCHANGED <<pc, input, mgr, actions, action_bdd_var_names, action_bdd_encodings,
                   automata, net, result>>

\* lines 326, 342: the loop condition fails and the set is returned
ReachReturn ==
    /\ pc = "loop"
    /\ reachable_states_bdd = prev_bdd
    /\ result' = reachable_states_bdd
    /\ pc' = "done"
    /\ UNCHANGED <<input, mgr, actions, action_bdd_var_names, action_bdd_encodings,
                   automata, net, reachable_states_bdd, prev_bdd, i>>

\* the program as written
Next == EncodeActions \/ ReadAutomaton \/ NetworkEncodeModel

Spec == Init /\ [][Next]_vars

\* the encoder and the reachability engine: the program with the debugging
\* block of lines 237-263 taken out
NextEngine == EncodeActions \/ ReadAutomaton \/ ComposeModel \/ ReachStart
              \/ ReachIterate \/ ReachReturn

SpecEngine == Init /\ [][NextEngine]_vars

\* the same with the fairness of a sequential program: the interpreter runs
\* the loop of lines 326-340 statement after statement, so an iteration that
\* can run does run, and so does the return of line 342
FairSpecEngine ==
    Init /\ [][NextEngine]_vars /\ WF_vars(ReachIterate) /\ WF_vars(ReachReturn)

\* Network takes any list of automata: the networks of two automata made with
\* the same name, Automaton(name) twice, which share the prefix of their
\* state variables (line 169)
SharedNameInputs ==
    {[x EXCEPT !.automata[2].name = x.automata[1].name] :
        x \in {y \in GeneratedInputs : Len(y.automata) = 2}}

InitSharedNames ==
    /\ input \in SharedNameInputs
    /\ pc = "main"
    /\ mgr = <<>>
    /\ actions = <<>>
    /\ action_bdd_var_names = <<>>
    /\ action_bdd_encodings = <<>>
    /\ automata = <<>>
    /\ net = NetworkInit
    /\ reachable_states_bdd = None
    /\ prev_bdd = None
    /\ i = 0
    /\ result = None

SpecSharedNames == InitSharedNames /\ [][NextEngine]_vars

TypeOK ==
    pc \in {"main", "read", "encode", "exited", "label_error", "encode_error",
            "reach", "loop", "done"}

(***************************************************************************)
(* The networks as explicit transition systems, for stating the            *)
(* properties: global states are tuples of declared local states.          *)
(***************************************************************************)
N == Len(automata)

LocalStates(k) == Range(automata[k].states)

GlobalStates ==
    {g \in [1..N -> UNION {LocalStates(k) : k \in 1..N}] :
        \A k \in 1..N : g[k] \in LocalStates(k)}

\* the automata that have a transition labelled a
Participants(a) == {k \in 1..N : \E t \in automata[k].transitions : t[2] = a}

\* g -a-> h: the participants take an a-transition, the others stay
SyncStep(a, g, h) ==
    /\ Participants(a) # {}
    /\ \A k \in Participants(a) : <<g[k], a, h[k]>> \in automata[k].transitions
    /\ \A k \in (1..N) \ Participants(a) : h[k] = g[k]

\* g -tau-> h by automaton k alone
LocalStep(k, g, h) ==
    /\ <<g[k], tau_label, h[k]>> \in automata[k].transitions
    /\ \A j \in (1..N) \ {k} : h[j] = g[j]

GlobalStep(g, h) ==
    \/ \E a \in Range(actions) : SyncStep(a, g, h)
    \/ \E k \in 1..N : LocalStep(k, g, h)

RECURSIVE Closure(_)
Closure(G) ==
    LET H == G \cup {h \in GlobalStates : \E g \in G : GlobalStep(g, h)}
    IN  IF H = G THEN G ELSE Closure(H)

InitialGlobalState == [k \in 1..N |-> automata[k].states[1]]

ExplicitReach == Closure({InitialGlobalState})

\* the variables a minterm makes true
TrueVars(u) == CHOOSE a \in u.sat : TRUE

\* the assignment to the unprimed state variables that encodes g
EncG(g) == UNION {TrueVars(automata[k].state_to_nonprimed_bdd_encoding[g[k]]) : k \in 1..N}

Primed(a) == {primed_prefix \o v : v \in a}

StateVars == UNION {Range(automata[k].state_bdd_vars) : k \in 1..N}

ActionVars == Range(action_bdd_var_names)

\* the set of global states a BDD over the unprimed state variables holds
Decode(u) == {g \in GlobalStates : Holds(u, EncG(g))}

\* whether every assignment of u to the state variables encodes a global state
OnlyDeclared(u) ==
    /\ u.support \subseteq StateVars
    /\ Extend(u, StateVars) \subseteq {EncG(g) : g \in GlobalStates}

Encoded == pc \in {"reach", "loop", "done"}

(***************************************************************************)
(* C1.  Network.encode_model runs to completion on every well-formed       *)
(* network: when the call is over it has returned, the global initial      *)
(* state is the conjunction of the components' initial-state encodings and *)
(* the global transition relation is the disjunction of sync_a over the    *)
(* actions with a participant and of local_i over the automata with a      *)
(* silent transition.  Stated on the networks whose automata all have two  *)
(* states or more (a one-state automaton is the case of C11).              *)
(***************************************************************************)
EncodeModelOver == pc \in {"exited", "encode_error", "reach", "loop", "done"}

NoSingleton == \A k \in 1..N : Len(automata[k].states) >= 2

C1_EncodeModelCompletes ==
    (EncodeModelOver /\ NoSingleton) =>
        /\ pc \notin {"exited", "encode_error"}
        /\ net.init_state_bdd =
              BigAnd({automata[k].state_to_nonprimed_bdd_encoding[automata[k].states[1]] :
                        k \in 1..N})
        /\ net.transition_relation = GlobalTransitionRelation(automata, actions)

(***************************************************************************)
(* C2.  For every action a of the alphabet that some automaton knows, the  *)
(* relation sync_a contains the global transition (g, a, g') exactly when  *)
(* every automaton with an a-transition takes one from g to g' and every   *)
(* other automaton keeps its local state; with any other value on the      *)
(* action variables the transition is not in sync_a.                       *)
(***************************************************************************)
\* the assignment that encodes the step from g to h with X on the action
\* variables
StepAssignment(g, X, h) == EncG(g) \cup X \cup Primed(EncG(h))

SilentTransitions(k) == {t \in automata[k].transitions : t[2] = tau_label}

RECURSIVE LocalClosure(_, _)
LocalClosure(k, S) ==
    LET T == S \cup {t[3] : t \in {u \in automata[k].transitions : u[1] \in S}}
    IN  IF T = S THEN S ELSE LocalClosure(k, T)

LocalReach(k) == LocalClosure(k, {automata[k].states[1]})

AllSilent == \A k \in 1..N : automata[k].transitions = SilentTransitions(k)

C3_SilentIndependence ==
    (EncodeModelOver /\ NoSingleton) =>
        /\ \A k \in 1..N : \A t \in SilentTransitions(k) :
              \A g \in {f \in GlobalStates : f[k] = t[1]}, X \in SUBSET ActionVars :
                  Holds(net.transition_relation,
                        StepAssignment(g, X, [g EXCEPT ![k] = t[3]]))
        /\ (pc = "done" /\ AllSilent) =>
              Decode(result) = {g \in GlobalStates : \A k \in 1..N : g[k] \in LocalReach(k)}

BddSubset(u, v) == BddAnd(u, v) = u

IterationBound ==
    pc \in {"loop", "done"} => i - 1 <= Cardinality(GlobalStates) + 1

Failed == pc \in {"label_error", "encode_error"}

C7_Participation ==
    /\ \A k \in 1..N :
          /\ automata[k].known_actions \ {tau_label} =
                {a \in Range(actions) :
                    \E t \in input.automata[k].transitions : t[2] = a}
          /\ \A t \in input.automata[k].transitions :
                t[2] \notin Range(actions) =>
                    <<t[1], tau_label, t[3]>> \in automata[k].transitions
    /\ pc = "done" =>
          \A a \in Range(actions), g \in Decode(result), h \in GlobalStates :
              SyncStep(a, g, h) => h \in Decode(result)
    /\ input = S3 =>
          /\ ~Failed
          /\ pc = "done" => Decode(result) = {<<"p", "r">>, <<"q", "r">>}

(***************************************************************************)
(* C8.  An action several automata know is only taken jointly: every step  *)
(* of the global transition relation is a joint step of all the            *)
(* participants of one action or a silent step of one automaton.  In       *)
(* scenario S5 the run ends with the reachable set {(0,0,0), (1,1,1),      *)
(* (2,2,2)}, in scenario S2 with {(p,r), (q,s)}.                           *)
(***************************************************************************)
C8_JointSync ==
    /\ pc = "reach" =>
          \A g \in GlobalStates, h \in GlobalStates, X \in SUBSET ActionVars :
              Holds(net.transition_relation, StepAssignment(g, X, h)) =>
                  GlobalStep(g, h)
    /\ input = S5 =>
          /\ ~Failed
          /\ pc = "done" =>
                Decode(result) = {[k \in 1..N |-> s] : s \in {"0", "1", "2"}}
    /\ input = S2 =>
          /\ ~Failed
          /\ pc = "done" => Decode(result) = {<<"p", "r">>, <<"q", "s">>}

(***************************************************************************)
(* C9.  A network of one automaton and an empty action alphabet, all the   *)
(* transitions silent, is encoded and explored without a failure, and the  *)
(* reachable set is the set of the local states reachable from the first   *)
(* declared state; in scenario S1 there are three of them.                 *)
(***************************************************************************)
C9_SingleSilentAutomaton ==
    (Len(input.automata) = 1 /\ input.actions = <<>>) =>
        /\ ~Failed
        /\ pc = "done" =>
              /\ Decode(result) = {g \in GlobalStates : g[1] \in LocalReach(1)}
              /\ input = S1 => Cardinality(Decode(result)) = Len(S1.automata[1].states)

(***************************************************************************)
(* C10.  For every non-empty list of distinct labels, here the action      *)
(* alphabet, encode_list_of_labels returns, allocates ceil(log2(n))        *)
(* variables and maps the label at index i to the minterm over exactly     *)
(* those variables that spells i in binary, variable 0 being the most      *)
(* significant bit; the mapping is injective.                              *)
(***************************************************************************)
\* the variables that are true when idx is spelled over the k variables vs
Spelled(vs, idx) ==
    {vs[j] : j \in {m \in 1..Len(vs) : (idx \div 2^(Len(vs) - m)) % 2 = 1}}

C10_LabelEncoding ==
    (pc # "main" /\ Len(actions) >= 1) =>
        /\ pc # "label_error"
        /\ Len(action_bdd_var_names) = NeededVars(Len(actions))
        /\ \A n \in 1..Len(actions) :
              action_bdd_encodings[actions[n]] =
                  [support |-> Range(action_bdd_var_names),
                   sat |-> {Spelled(action_bdd_var_names, n - 1)}]
        /\ \A m, n \in 1..Len(actions) :
              action_bdd_encodings[actions[m]] = action_bdd_encodings[actions[n]] => m = n

(***************************************************************************)
(* C11.  A list of exactly one label is encoded with zero variables and    *)
(* the label mapped to the constant true, which refers to no variable: a   *)
(* one-action alphabet is encoded, and so is a one-state automaton.        *)
(***************************************************************************)
C11_SingleLabel ==
    /\ (pc # "main" /\ Len(actions) = 1) =>
          /\ pc # "label_error"
          /\ action_bdd_var_names = <<>>
          /\ action_bdd_encodings[actions[1]] = BddTrue
    /\ (\E k \in 1..N : Len(automata[k].states) = 1) => pc # "encode_error"

(***************************************************************************)
(* C12.  After Automaton.encode_model, for every action a the automaton    *)
(* knows and all its local states s, s', the relation of a holds of        *)
(* enc(s), the action variables and primed enc(s') exactly when (s, a, s') *)
(* is a transition of the automaton, labels outside the alphabet being tau,*)
(* and the action variables spell a; for tau the action variables are      *)
(* unconstrained.                                                          *)
(***************************************************************************)
\* the assignment that encodes the local step of automaton k from s to t
\* with X on the action variables
LocalAssignment(k, s, X, t) ==
    TrueVars(automata[k].state_to_nonprimed_bdd_encoding[s]) \cup X
        \cup Primed(TrueVars(automata[k].state_to_nonprimed_bdd_encoding[t]))

C13_IdentityCorrectness ==
    pc = "exited" =>
        \A k \in 1..N :
            LET enc == automata[k].state_to_nonprimed_bdd_encoding
                d == automata[k].state_bdd_vars_nonprimed_to_primed_dict
                id == automata[k].identity
            IN  /\ id.support \cap ActionVars = {}
                /\ \A s \in LocalStates(k) :
                      /\ BddAnd(id, enc[s]) = BddAnd(enc[s], BddLet(d, enc[s]))
                      /\ \A t \in LocalStates(k) \ {s} :
                            BddAnd(BddAnd(id, enc[s]), BddLet(d, enc[t])) = BddFalse

\* an encoded automaton of three states, which leaves one code unused
C13_Witness ==
    /\ pc = "exited"
    /\ \E k \in 1..N :
          /\ Len(automata[k].states) = Len(StateNames)
          /\ automata[k].identity \notin {BddFalse, BddTrue}

(***************************************************************************)
(* C14.  When two automata of a network share a name, and with it the      *)
(* prefix of their state variables, Network.encode_model detects the       *)
(* collision and fails: it does not compose the automata over shared       *)
(* state variables.  Stated on the networks whose automata all have two    *)
(* states or more.                                                         *)
(***************************************************************************)
SharedName == \E j \in 1..N, k \in 1..N : j # k /\ automata[j].name = automata[k].name

C14_NameCollisionDetected ==
    (SharedName /\ NoSingleton /\ EncodeModelOver) =>
        /\ pc = "encode_error"
        /\ net.transition_relation = None

(***************************************************************************)
(* C15.  encode_list_of_labels called with an empty label list, such as    *)
(* the action alphabet of an empty sync file, ends in an error, before it  *)
(* has allocated a variable or produced an encoding.                       *)
(***************************************************************************)
C15_EmptyListRejected ==
    (pc # "main" /\ Len(actions) = 0) =>
        /\ pc = "label_error"
        /\ mgr = <<>>
        /\ action_bdd_var_names = <<>>
        /\ action_bdd_encodings = <<>>

\* the run on an empty sync file, after the call
C15_Witness ==
    /\ pc = "label_error"
    /\ input.actions = <<>>
    /\ actions = <<>>

RECURSIVE FrontierAfter(_)
FrontierAfter(k) ==
    IF k = 0
    THEN [reach |-> net.init_state_bdd, frontier |-> net.init_state_bdd, over |-> FALSE]
    ELSE LET Step(p) ==
                 IF p.over THEN p
                 ELSE CHOOSE x \in
                        {[reach |-> BddOr(p.reach, new), frontier |-> new,
                          over |-> new = BddFalse] :
                           new \in {BddAnd(Image(net, action_bdd_var_names, p.frontier),
                                           BddNot(p.reach))}} : TRUE
         IN  CHOOSE x \in {Step(p) : p \in {FrontierAfter(k - 1)}} : TRUE

RECURSIVE Saturate(_, _)
Saturate(reach, prev) ==
    IF reach = prev THEN reach
    ELSE Saturate(BddOr(reach, Image(net, action_bdd_var_names, reach)), reach)

PrimedCopy(u) == [support |-> Primed(u.support), sat |-> {Primed(a) : a \in u.sat}]

\* d maps the variables U to their primed copies and these back
BothWays(d, U) ==
    /\ DOMAIN d = U \cup Primed(U)
    /\ \A v \in U : d[v] = primed_prefix \o v
    /\ \A v \in DOMAIN d : d[v] \in DOMAIN d /\ d[d[v]] = v

====
